---------------------------- MODULE Spec2Model ----------------------------
(***************************************************************************)
(* A model of texting_robots: the wildcard matcher MinRegex                *)
(* (src/src/minregex.rs), which lib.rs imports as RobotRegex, and the      *)
(* Robot built by Robot::new and queried by Robot::allowed                 *)
(* (src/src/lib.rs).                                                       *)
(*                                                                         *)
(* Strings are sequences of one-character strings.  Indices are 0-based    *)
(* as in the source; At(s, i) reads s[i].                                  *)
(***************************************************************************)
EXTENDS Integers, Sequences, FiniteSets, TLC

VARIABLES
    overflow_checks, \* build profile: TRUE = debug (usize underflow panics),
                     \*                FALSE = release (usize underflow wraps)
    pattern,         \* SpecMatch: the pattern handed to MinRegex::new
    text,            \* SpecMatch: the candidate handed to is_match
    rule,            \* SpecMatch: the MinRegex built from the pattern, or None
    matched,         \* SpecMatch: the outcome of is_match, "none" before the call
    agent,           \* Spec: the agent name handed to Robot::new
    lines,           \* Spec: the document handed to Robot::new, as parsed Lines
    raw_url,         \* Spec: the URL handed to Robot::allowed
    robot,           \* Spec: the Robot returned by Robot::new, or None
    answer,          \* Spec: the outcome of Robot::allowed, "none" before the call
    result,          \* Spec: "none" before Robot::new, then "Ok" or "Err"
    txt,             \* SpecParse: the bytes handed to the parser and Robot::new
    parsed           \* SpecParse: what robots_txt_parse returned, or None

matchVars == <<pattern, text, rule, matched>>
robotVars == <<agent, lines, raw_url, robot, answer, result>>
parseVars == <<txt, parsed>>
vars == <<overflow_checks, matchVars, robotVars, parseVars>>

\* Option<T>: the empty sequence is None, <<v>> is Some(v).
None == <<>>
Some(v) == <<v>>
IsSome(o) == Len(o) = 1
Unwrap(o) == o[1]

(***************************************************************************)
(* Bounds of the model.                                                    *)
(***************************************************************************)
MaxPatLen == 3
MaxTextLen == 3

\* The characters of the model: three literals (one of them a regex
\* metacharacter, two differing only in case) and the two operators.
Literals == {"a", "A", "("}
Star == "*"
Dollar == "$"
PatternChars == Literals \cup {Star, Dollar}
TextChars == Literals \cup {Dollar}

SeqsUpTo(S, n) == UNION {[1..k -> S] : k \in 0..n}

Patterns == SeqsUpTo(PatternChars, MaxPatLen)
Texts == SeqsUpTo(TextChars, MaxTextLen)

(***************************************************************************)
(* Helpers for Rust slices and usize arithmetic.                           *)
(***************************************************************************)
At(s, i) == s[i + 1]
From(s, i) == SubSeq(s, i + 1, Len(s))

\* TLC's integers are 32 bits wide; usize::MAX is modelled by the largest of
\* them, which like usize::MAX exceeds every index the model reaches.
UsizeMax == 2^30 + (2^30 - 1)
Overflow == 0 - 1

\* n - 1 on usize: panics on underflow when overflow checks are on, wraps to
\* usize::MAX when they are off.
Sub1(n, oc) == IF n > 0 THEN n - 1 ELSE IF oc THEN Overflow ELSE UsizeMax

Bool(b) == IF b THEN "true" ELSE "false"

(***************************************************************************)
(* MinRegex::new: runs of "*" are replaced by a single "*".                *)
(***************************************************************************)
RECURSIVE StarKiller(_)
StarKiller(p) ==
    IF Len(p) = 0 THEN <<>>
    ELSE IF Len(p) >= 2 /\ p[1] = Star /\ p[2] = Star THEN StarKiller(Tail(p))
    ELSE <<p[1]>> \o StarKiller(Tail(p))

MinRegexNew(p) == [pattern |-> p, regex |-> StarKiller(p)]

(***************************************************************************)
(* MinRegex::matcher.  The outcome is "true", "false" or "panic".          *)
(* MatcherLoop is the outer while loop, MatcherStar the body of the "*"    *)
(* branch (the inner while loop over temp and what follows it) and         *)
(* MatcherExit the code after the outer loop.  The depth argument of the   *)
(* source is only used by commented-out logging and is left out.           *)
(***************************************************************************)
RECURSIVE matcher(_, _, _)
RECURSIVE MatcherLoop(_, _, _, _, _)
RECURSIVE MatcherStar(_, _, _, _, _, _)

\* MatcherExit as in rep-cpp: a pattern consumed up to its last character
\* matches, whatever the candidate holds there.
MatcherExit_LastCharUnchecked(p, t, pidx, tidx, oc) ==
    LET plen1 == Sub1(Len(p), oc) IN
    IF pidx = plen1 THEN "true"
    ELSE IF pidx + 1 = plen1 /\ At(p, pidx + 1) = Dollar THEN
        IF tidx >= Len(t) THEN "panic"
        ELSE IF At(p, pidx) # At(t, tidx) THEN "false"
        ELSE IF Sub1(Len(t), oc) = Overflow THEN "panic"
        ELSE Bool(tidx = Sub1(Len(t), oc))
    ELSE IF At(p, pidx) = Dollar THEN
        IF Sub1(Len(t), oc) = Overflow THEN "panic"
        ELSE Bool(tidx = Sub1(Len(t), oc))
    ELSE IF plen1 = pidx + 1 /\ At(p, pidx + 1) = Star THEN "true"
    ELSE "false"

\* minregex.rs 172-192: the code after the outer loop

MatcherExit(p, t, pidx, tidx, oc) ==
    LET plen1 == Sub1(Len(p), oc) IN
    IF pidx = plen1 THEN
        IF At(p, pidx) = Star THEN "true"
        ELSE IF tidx >= Len(t) THEN "panic"
        ELSE Bool(At(p, pidx) = At(t, tidx))
    ELSE IF pidx + 1 = plen1 /\ At(p, pidx + 1) = Dollar THEN
        IF tidx >= Len(t) THEN "panic"
        ELSE IF At(p, pidx) # At(t, tidx) THEN "false"
        ELSE IF Sub1(Len(t), oc) = Overflow THEN "panic"
        ELSE Bool(tidx = Sub1(Len(t), oc))
    ELSE IF At(p, pidx) = Dollar THEN
        IF Sub1(Len(t), oc) = Overflow THEN "panic"
        ELSE Bool(tidx = Sub1(Len(t), oc))
    ELSE IF plen1 = pidx + 1 /\ At(p, pidx + 1) = Star THEN "true"
    ELSE "false"

MatcherStar(p, t, pidx, tidx, temp, oc) ==
    LET tlen1 == Sub1(Len(t), oc) IN
    IF tlen1 = Overflow THEN "panic"
    ELSE IF temp < tlen1 THEN
        IF temp > Len(t) THEN "panic"
        ELSE LET r == matcher(From(p, pidx), From(t, temp), oc) IN
             IF r = "false" THEN MatcherStar(p, t, pidx, tidx, temp + 1, oc)
             ELSE r
    ELSE IF pidx < Sub1(Len(p), oc) THEN
        matcher(From(p, pidx), From(t, tidx), oc)
    ELSE "false"

MatcherLoop(p, t, pidx, tidx, oc) ==
    LET plen1 == Sub1(Len(p), oc) IN
    IF plen1 = Overflow THEN "panic"
    ELSE IF ~(pidx < plen1) THEN MatcherExit(p, t, pidx, tidx, oc)
    ELSE IF Sub1(Len(t), oc) = Overflow THEN "panic"
    ELSE IF ~(tidx < Sub1(Len(t), oc)) THEN MatcherExit(p, t, pidx, tidx, oc)
    ELSE IF At(p, pidx) = Star THEN MatcherStar(p, t, pidx + 1, tidx, tidx, oc)
    ELSE IF At(p, pidx) = Dollar THEN "false"
    ELSE IF tidx >= Len(t) THEN "panic"
    ELSE IF At(p, pidx) # At(t, tidx) THEN "false"
    ELSE MatcherLoop(p, t, pidx + 1, tidx + 1, oc)

matcher(p, t, oc) == MatcherLoop(p, t, 0, 0, oc)

\* is_match with the empty pattern matching nothing.
is_match_EmptyNeverMatches(r, t, oc) ==
    IF Len(r.regex) = 0 THEN "false" ELSE matcher(r.regex, t, oc)

\* MinRegex::is_match
is_match(r, t, oc) ==
    IF Len(r.regex) = 0 THEN "true" ELSE matcher(r.regex, t, oc)

(***************************************************************************)
(* SpecMatch: one MinRegex is built from a pattern and asked about one      *)
(* candidate.                                                              *)
(***************************************************************************)
InitMatch ==
    /\ overflow_checks \in BOOLEAN
    /\ pattern \in Patterns
    /\ text \in Texts
    /\ rule = None
    /\ matched = "none"
    /\ agent = <<>> /\ lines = <<>> /\ raw_url = <<>>
    /\ robot = None /\ answer = "none" /\ result = "none"
    /\ txt = <<>> /\ parsed = None

Compile ==
    /\ rule = None
    /\ rule' = Some(MinRegexNew(pattern))
    /\ UNCHANGED <<overflow_checks, pattern, text, matched, robotVars,
                   parseVars>>

IsMatch ==
    /\ IsSome(rule)
    /\ matched = "none"
    /\ matched' = is_match(Unwrap(rule), text, overflow_checks)
    /\ UNCHANGED <<overflow_checks, pattern, text, rule, robotVars, parseVars>>

NextMatch == Compile \/ IsMatch

SpecMatch == InitMatch /\ [][NextMatch]_vars

(***************************************************************************)
(* Lines, as robots_txt_parse returns them.  A value is a byte string; the *)
(* model writes a byte that makes it invalid UTF-8 as BadByte.  The value  *)
(* of a CrawlDelay line is its number.                                     *)
(***************************************************************************)
UserAgent(v) == [kind |-> "UserAgent", value |-> v]
Allow(v) == [kind |-> "Allow", value |-> v]
Disallow(v) == [kind |-> "Disallow", value |-> v]
Sitemap(v) == [kind |-> "Sitemap", value |-> v]
CrawlDelay(d) == [kind |-> "CrawlDelay", value |-> d]
Raw(v) == [kind |-> "Raw", value |-> v]

BadByte == "0xFF"

\* The bytes of the byte order mark.  Together they are the UTF-8 encoding
\* of U+FEFF; any of them elsewhere is not valid UTF-8.
BomEF == "0xEF"
BomBB == "0xBB"
BomBF == "0xBF"

\* std::str::from_utf8 / String::from_utf8 / bstr to_str succeed
RECURSIVE IsUtf8(_)
IsUtf8(v) ==
    IF Len(v) = 0 THEN TRUE
    ELSE IF Len(v) >= 3 /\ v[1] = BomEF /\ v[2] = BomBB /\ v[3] = BomBF
        THEN IsUtf8(SubSeq(v, 4, Len(v)))
    ELSE IF v[1] \in {BadByte, BomEF, BomBB, BomBF} THEN FALSE
    ELSE IsUtf8(Tail(v))

\* A letter outside ASCII, in upper and in lower case.
CapitalEAcute == "U+00C9"
SmallEAcute == "U+00E9"

\* str::to_lowercase lowercases every letter, u8::to_ascii_lowercase only
\* the ASCII ones.
AsciiLowerChar(c) ==
    CASE c = "A" -> "a"
      [] c = "B" -> "b"
      [] c = "C" -> "c"
      [] c = "D" -> "d"
      [] c = "E" -> "e"
      [] c = "F" -> "f"
      [] c = "G" -> "g"
      [] c = "H" -> "h"
      [] c = "I" -> "i"
      [] c = "J" -> "j"
      [] c = "K" -> "k"
      [] c = "L" -> "l"
      [] c = "M" -> "m"
      [] c = "N" -> "n"
      [] c = "O" -> "o"
      [] c = "P" -> "p"
      [] c = "Q" -> "q"
      [] c = "R" -> "r"
      [] c = "S" -> "s"
      [] c = "T" -> "t"
      [] c = "U" -> "u"
      [] c = "V" -> "v"
      [] c = "W" -> "w"
      [] c = "X" -> "x"
      [] c = "Y" -> "y"
      [] c = "Z" -> "z"
      [] OTHER -> c
UnicodeLowerChar(c) ==
    IF c = CapitalEAcute THEN SmallEAcute ELSE AsciiLowerChar(c)
to_lowercase(v) == [i \in 1..Len(v) |-> UnicodeLowerChar(v[i])]
to_ascii_lowercase(v) == [i \in 1..Len(v) |-> AsciiLowerChar(v[i])]

\* percent_encode: the characters of the FRAGMENT set are replaced by their
\* %XX escape, all others are kept.
RECURSIVE percent_encode(_)
percent_encode(v) ==
    IF Len(v) = 0 THEN <<>>
    ELSE (CASE v[1] = " " -> <<"%", "2", "0">>
            [] v[1] = "TAB" -> <<"%", "0", "9">>
            [] v[1] = BomEF -> <<"%", "E", "F">>
            [] v[1] = BomBB -> <<"%", "B", "B">>
            [] v[1] = BomBF -> <<"%", "B", "F">>
            [] v[1] = CapitalEAcute -> <<"%", "C", "3", "%", "8", "9">>
            [] v[1] = SmallEAcute -> <<"%", "C", "3", "%", "A", "9">>
            [] OTHER -> <<v[1]>>) \o percent_encode(Tail(v))

(***************************************************************************)
(* The directive parser (lib.rs 310-441), on bytes.  A byte is a           *)
(* one-character string or one of the named bytes below.  A parser returns *)
(* POk(rest, out) or PErr (nom's Err::Error).                              *)
(***************************************************************************)
LF == "LF"
CR == "CR"
NUL == "NUL"
TAB == "TAB"
Space == " "
Colon == ":"
Hash == "#"
Blank == {Space, TAB}

POk(rest, out) == [ok |-> TRUE, rest |-> rest, out |-> out]
PErr == [ok |-> FALSE, rest |-> <<>>, out |-> <<>>]

Skip(input, n) == SubSeq(input, n + 1, Len(input))

\* take_while: the length of the longest prefix with all bytes in S, or with
\* no byte in S
LeadIn(input, S) ==
    CHOOSE k \in 0..Len(input) :
        /\ \A i \in 1..k : input[i] \in S
        /\ k = Len(input) \/ input[k + 1] \notin S
LeadNotIn(input, S) ==
    CHOOSE k \in 0..Len(input) :
        /\ \A i \in 1..k : input[i] \notin S
        /\ k = Len(input) \/ input[k + 1] \in S

\* tag_no_case: the input starts with the tag, ASCII letters compared
\* without case
tag_no_case(t, input) ==
    /\ Len(input) >= Len(t)
    /\ \A i \in 1..Len(t) : AsciiLowerChar(input[i]) = AsciiLowerChar(t[i])

\* alt over tag_no_case parsers: the length of the first tag that matches,
\* or -1
MatchTags(tags, input) ==
    LET hits == {i \in 1..Len(tags) : tag_no_case(tags[i], input)} IN
    IF hits = {} THEN 0 - 1
    ELSE Len(tags[CHOOSE i \in hits : \A j \in hits : i <= j])

\* bstr trim: whitespace is removed at both ends
RECURSIVE trim(_)
trim(v) ==
    IF Len(v) = 0 THEN v
    ELSE IF v[1] \in Blank THEN trim(Tail(v))
    ELSE IF v[Len(v)] \in Blank THEN trim(SubSeq(v, 1, Len(v) - 1))
    ELSE v

\* consume_newline without the carriage returns: only a line feed ends a
\* line.
consume_newline_LineFeedOnly(input) ==
    IF Len(input) > 0 /\ input[1] = LF THEN Tail(input) ELSE input

\* consume_newline taking one carriage return at most.
consume_newline_OneReturn(input) ==
    LET i1 == IF Len(input) > 0 /\ input[1] = CR THEN Tail(input) ELSE input
    IN IF Len(i1) > 0 /\ i1[1] = LF THEN Tail(i1) ELSE i1

\* lib.rs 322-326: any number of carriage returns, then at most one line
\* feed; what is left of the input
consume_newline(input) ==
    LET i1 == Skip(input, LeadIn(input, {CR})) IN
    IF Len(i1) > 0 /\ i1[1] = LF THEN Tail(i1) ELSE i1

\* lib.rs 328-332: the parser named line
raw_line(input) ==
    LET k == LeadNotIn(input, {LF, CR}) IN
    POk(consume_newline(Skip(input, k)), Raw(SubSeq(input, 1, k)))

\* lib.rs 346: space0
SkipBlank(input) == Skip(input, LeadIn(input, Blank))

\* lib.rs 350-351: opt(preceded(tag("#"), take_while(is_not_line_ending)))
SkipComment(input) ==
    IF Len(input) > 0 /\ input[1] = Hash
    THEN Skip(input, 1 + LeadNotIn(Tail(input), {LF, CR}))
    ELSE input

\* lib.rs 349-354: the value up to a comment or a line ending, trimmed;
\* the comment and the line ending are consumed
StatementValue(input) ==
    POk(consume_newline(
            SkipComment(Skip(input, LeadNotIn(input, {LF, CR, Hash})))),
        trim(SubSeq(input, 1, LeadNotIn(input, {LF, CR, Hash}))))

\* StatementSeparator with the separator left to choice: the value may
\* follow the name directly.
StatementSeparator_Optional(input) ==
    IF Len(SkipBlank(input)) > 0 /\ SkipBlank(input)[1] = Colon
        THEN StatementValue(Tail(SkipBlank(input)))
    ELSE StatementValue(SkipBlank(input))

\* lib.rs 348: alt((preceded(space0, tag(":")), space1)), then the value
StatementSeparator(input) ==
    IF Len(SkipBlank(input)) > 0 /\ SkipBlank(input)[1] = Colon
        THEN StatementValue(Tail(SkipBlank(input)))
    ELSE IF LeadIn(input, Blank) >= 1 THEN StatementValue(SkipBlank(input))
    ELSE PErr

\* lib.rs 346: alt(targets), then the separator and the value
StatementTag(input, targets) ==
    IF MatchTags(targets, input) < 0 THEN PErr
    ELSE StatementSeparator(Skip(input, MatchTags(targets, input)))

\* lib.rs 334-355
many_statement_builder(input, targets) ==
    StatementTag(SkipBlank(input), targets)

\* The spellings of the directives (lib.rs 358-362, 368, 374-381,
\* 392-396, 402-406)
UserAgentTags ==
    <<<<"u", "s", "e", "r", "-", "a", "g", "e", "n", "t">>,
      <<"u", "s", "e", "r", " ", "a", "g", "e", "n", "t">>,
      <<"u", "s", "e", "r", "a", "g", "e", "n", "t">>>>
AllowTags ==
    <<<<"a", "l", "l", "o", "w">>>>
DisallowTags ==
    <<<<"d", "i", "s", "a", "l", "l", "o", "w">>,
      <<"d", "i", "s", "s", "a", "l", "l", "o", "w">>,
      <<"d", "i", "s", "s", "a", "l", "o", "w">>,
      <<"d", "i", "s", "a", "l", "o", "w">>,
      <<"d", "i", "a", "s", "l", "l", "o", "w">>,
      <<"d", "i", "s", "a", "l", "l", "a", "w">>>>
SitemapTags ==
    <<<<"s", "i", "t", "e", "m", "a", "p">>,
      <<"s", "i", "t", "e", "-", "m", "a", "p">>,
      <<"s", "i", "t", "e", " ", "m", "a", "p">>>>
CrawlDelayTags ==
    <<<<"c", "r", "a", "w", "l", "-", "d", "e", "l", "a", "y">>,
      <<"c", "r", "a", "w", "l", " ", "d", "e", "l", "a", "y">>,
      <<"c", "r", "a", "w", "l", "d", "e", "l", "a", "y">>>>

\* lib.rs 364
UserAgentLine(r) == IF r.ok THEN POk(r.rest, UserAgent(r.out)) ELSE PErr

\* lib.rs 357-365
user_agent(input) ==
    UserAgentLine(many_statement_builder(input, UserAgentTags))

\* lib.rs 370
AllowLine(r) == IF r.ok THEN POk(r.rest, Allow(r.out)) ELSE PErr

\* lib.rs 367-371
allow(input) == AllowLine(many_statement_builder(input, AllowTags))

\* lib.rs 383-388: a Disallow line without a value allows everything
DisallowLine(r) ==
    IF ~r.ok THEN PErr
    ELSE IF Len(r.out) = 0 THEN POk(r.rest, Allow(<<"/">>))
    ELSE POk(r.rest, Disallow(r.out))

\* lib.rs 373-389
disallow(input) == DisallowLine(many_statement_builder(input, DisallowTags))

\* lib.rs 398
SitemapLine(r) == IF r.ok THEN POk(r.rest, Sitemap(r.out)) ELSE PErr

\* lib.rs 391-399
sitemap(input) == SitemapLine(many_statement_builder(input, SitemapTags))

\* str::parse::<f32> on the numbers the model writes: decimal digits with
\* an optional minus sign.  Anything else is not a number.
DigitChars == {"0", "1", "2"}
DigitVal(c) == CASE c = "0" -> 0 [] c = "1" -> 1 [] c = "2" -> 2
IsDigits(v) == Len(v) >= 1 /\ \A i \in 1..Len(v) : v[i] \in DigitChars
RECURSIVE NatOf(_)
NatOf(v) ==
    IF Len(v) = 0 THEN 0
    ELSE 10 * NatOf(SubSeq(v, 1, Len(v) - 1)) + DigitVal(v[Len(v)])
ParseF32(v) ==
    IF IsDigits(v) THEN Some(NatOf(v))
    ELSE IF Len(v) >= 2 /\ v[1] = "-" /\ IsDigits(Tail(v))
        THEN Some(0 - NatOf(Tail(v)))
    ELSE None

\* DelayValue without the test d >= 0.0.
DelayValue_AcceptsNegative(rest, d) ==
    IF IsSome(d) THEN POk(rest, CrawlDelay(Unwrap(d))) ELSE PErr

\* lib.rs 418-427: a number that is not below 0 makes a CrawlDelay line
DelayValue(rest, d) ==
    IF IsSome(d) /\ Unwrap(d) >= 0 THEN POk(rest, CrawlDelay(Unwrap(d)))
    ELSE PErr

\* lib.rs 409-427
DelayLine(r) ==
    IF ~r.ok THEN PErr
    ELSE IF ~IsUtf8(r.out) THEN PErr
    ELSE DelayValue(r.rest, ParseF32(r.out))

\* lib.rs 401-428
crawl_delay(input) == DelayLine(many_statement_builder(input, CrawlDelayTags))

\* alt: the result of the first parser unless it failed
OrElse(r, s) == IF r.ok THEN r ELSE s

\* lib.rs 437-438: alt((user_agent, allow, disallow, sitemap, crawl_delay,
\* line)), the first parser that succeeds
directive(input) ==
    OrElse(user_agent(input),
    OrElse(allow(input),
    OrElse(disallow(input),
    OrElse(sitemap(input),
    OrElse(crawl_delay(input), raw_line(input))))))

\* lib.rs 439: many_till(matcher, eof).  nom stops with an error when the
\* inner parser fails or consumes nothing.
RECURSIVE many_till(_, _)
RECURSIVE ManyTillStep(_, _, _)
ManyTillStep(input, acc, r) ==
    IF ~r.ok THEN PErr
    ELSE IF Len(r.rest) = Len(input) THEN PErr
    ELSE many_till(r.rest, Append(acc, r.out))

many_till(input, acc) ==
    IF Len(input) = 0 THEN POk(input, acc)
    ELSE ManyTillStep(input, acc, directive(input))

\* opt(tag(b)): the byte is dropped if the input starts with it
OptByte(input, b) ==
    IF Len(input) > 0 /\ input[1] = b THEN Tail(input) ELSE input

\* lib.rs 430-441
robots_txt_parse(input) ==
    many_till(OptByte(OptByte(OptByte(input, BomEF), BomBB), BomBF), <<>>)

(***************************************************************************)
(* Robot::new, from the parsed lines on.                                   *)
(***************************************************************************)
\* CollectSitemaps keeping the values that are not valid UTF-8 as well.
CollectSitemaps_KeepsInvalid(ls) ==
    LET sm == SelectSeq(ls, LAMBDA l : l.kind = "Sitemap")
    IN [i \in 1..Len(sm) |-> sm[i].value]

\* lib.rs 548-559: the sitemaps of the document
CollectSitemaps(ls) ==
    LET sm == SelectSeq(ls, LAMBDA l : l.kind = "Sitemap" /\ IsUtf8(l.value))
    IN [i \in 1..Len(sm) |-> sm[i].value]

\* FilterLines dropping the Sitemap lines only.
FilterLines_KeepsRaw(ls) == SelectSeq(ls, LAMBDA l : l.kind # "Sitemap")

\* lib.rs 561-567: Sitemap and Raw lines are dropped
FilterLines(ls) == SelectSeq(ls, LAMBDA l : l.kind \notin {"Sitemap", "Raw"})

\* lib.rs 570-575
references_our_bot(ls, ag) ==
    \E i \in 1..Len(ls) :
        /\ ls[i].kind = "UserAgent"
        /\ ag = to_ascii_lowercase(ls[i].value)

\* lib.rs 545-578: the agent the capture loop looks for
ActiveAgent(ls, ag) ==
    IF references_our_bot(ls, to_lowercase(ag)) THEN to_lowercase(ag)
    ELSE <<"*">>

\* InitialCapturing with capturing false at the start for every document.
InitialCapturing_NeverAtStart(ls) == FALSE

\* lib.rs 582-587
InitialCapturing(ls) ==
    Cardinality({i \in 1..Len(ls) : ls[i].kind = "UserAgent"}) = 0

\* UserAgentRun with every User-Agent line of a run deciding capturing anew.
RECURSIVE UserAgentRun_LastLineDecides(_, _, _, _, _)
UserAgentRun_LastLineDecides(ls, ag, idx, line, capturing) ==
    IF idx < Len(ls) /\ line.kind = "UserAgent" THEN
        LET cap == (ag = to_ascii_lowercase(line.value)) IN
        IF idx + 1 = Len(ls)
        THEN [idx |-> idx + 1, line |-> line, capturing |-> cap]
        ELSE UserAgentRun_LastLineDecides(ls, ag, idx + 1, At(ls, idx + 1), cap)
    ELSE [idx |-> idx, line |-> line, capturing |-> capturing]

\* lib.rs 598-613: the inner loop over a run of User-Agent lines
RECURSIVE UserAgentRun(_, _, _, _, _)
UserAgentRun(ls, ag, idx, line, capturing) ==
    IF idx < Len(ls) /\ line.kind = "UserAgent" THEN
        LET cap == capturing \/ ag = to_ascii_lowercase(line.value) IN
        IF idx + 1 = Len(ls)
        THEN [idx |-> idx + 1, line |-> line, capturing |-> cap]
        ELSE UserAgentRun(ls, ag, idx + 1, At(ls, idx + 1), cap)
    ELSE [idx |-> idx, line |-> line, capturing |-> capturing]

\* lib.rs 590-619: the capture loop
RECURSIVE CaptureLoop(_, _, _, _, _)
CaptureLoop(ls, ag, idx, capturing, subset) ==
    IF ~(idx < Len(ls)) THEN subset
    ELSE
        LET line == At(ls, idx)
            cap == IF line.kind = "UserAgent" THEN FALSE ELSE capturing
            run == UserAgentRun(ls, ag, idx, line, cap)
        IN CaptureLoop(ls, ag, run.idx + 1, run.capturing,
                       IF run.capturing THEN Append(subset, run.line)
                       ELSE subset)

Subset(ls, ag) == CaptureLoop(ls, ag, 0, InitialCapturing(ls), <<>>)

\* CapturedDelay taking the last delay of the captured lines.
CapturedDelay_Last(subset) ==
    LET ds == SelectSeq(subset, LAMBDA l : l.kind = "CrawlDelay")
    IN IF Len(ds) = 0 THEN None ELSE Some(ds[Len(ds)].value)

\* lib.rs 622-629: the first delay of the captured lines
CapturedDelay(subset) ==
    LET ds == SelectSeq(subset, LAMBDA l : l.kind = "CrawlDelay")
    IN IF Len(ds) = 0 THEN None ELSE Some(ds[1].value)

\* LeadingDelay without the break at the first User-Agent line.
RECURSIVE LeadingDelay_NoBreak(_, _, _)
LeadingDelay_NoBreak(ls, i, delay) ==
    IF i > Len(ls) THEN delay
    ELSE IF ls[i].kind = "CrawlDelay"
        THEN LeadingDelay_NoBreak(ls, i + 1, Some(ls[i].value))
    ELSE LeadingDelay_NoBreak(ls, i + 1, delay)

\* LeadingDelay keeping the first delay it finds.
RECURSIVE LeadingDelay_KeepsFirst(_, _, _)
LeadingDelay_KeepsFirst(ls, i, delay) ==
    IF i > Len(ls) THEN delay
    ELSE IF ls[i].kind = "CrawlDelay" THEN Some(ls[i].value)
    ELSE IF ls[i].kind = "UserAgent" THEN delay
    ELSE LeadingDelay_KeepsFirst(ls, i + 1, delay)

\* lib.rs 633-642: the delays before the first User-Agent line, each
\* overwriting the one before
RECURSIVE LeadingDelay(_, _, _)
LeadingDelay(ls, i, delay) ==
    IF i > Len(ls) THEN delay
    ELSE IF ls[i].kind = "CrawlDelay"
        THEN LeadingDelay(ls, i + 1, Some(ls[i].value))
    ELSE IF ls[i].kind = "UserAgent" THEN delay
    ELSE LeadingDelay(ls, i + 1, delay)

Delay(ls, subset) ==
    IF IsSome(CapturedDelay(subset)) THEN CapturedDelay(subset)
    ELSE LeadingDelay(ls, 1, None)

\* BuildRules making a rule of every captured Allow or Disallow line.
BuildRules_KeepsInvalid(subset) ==
    LET rs == SelectSeq(subset, LAMBDA l : l.kind \in {"Allow", "Disallow"})
    IN [i \in 1..Len(rs) |->
           [rule |-> MinRegexNew(percent_encode(rs[i].value)),
            is_allowed |-> (rs[i].kind = "Allow")]]

\* lib.rs 645-674: one (rule, is_allowed) pair per captured Allow or
\* Disallow line whose value is valid UTF-8.  MinRegex::new never fails.
BuildRules(subset) ==
    LET rs == SelectSeq(subset, LAMBDA l :
                  l.kind \in {"Allow", "Disallow"} /\ IsUtf8(l.value))
    IN [i \in 1..Len(rs) |->
           [rule |-> MinRegexNew(percent_encode(rs[i].value)),
            is_allowed |-> (rs[i].kind = "Allow")]]

\* minregex.rs 98-108: MinRegex::new returns Ok for every pattern
MinRegexNewIsOk(p) == TRUE

\* lib.rs 663-672: a rule that does not compile makes Robot::new return Err
RobotNewResult(ag, ls) ==
    LET filtered == FilterLines(ls)
        subset == Subset(filtered, ActiveAgent(filtered, ag))
    IN IF \A i \in 1..Len(subset) :
              (subset[i].kind \in {"Allow", "Disallow"}
                  /\ IsUtf8(subset[i].value))
              => MinRegexNewIsOk(percent_encode(subset[i].value))
       THEN "Ok" ELSE "Err"

\* lib.rs 544-676: the Robot of the Ok result
RobotNew(ag, ls) ==
    LET filtered == FilterLines(ls)
        subset == Subset(filtered, ActiveAgent(filtered, ag))
    IN [rules |-> BuildRules(subset),
        delay |-> Delay(filtered, subset),
        sitemaps |-> CollectSitemaps(ls)]

\* lib.rs 529-532: every NUL byte becomes a line feed
ReplaceNul(t) == [i \in 1..Len(t) |-> IF t[i] = NUL THEN LF ELSE t[i]]

\* lib.rs 535-676: Robot::new once the parser has returned p
RobotNewParsed(ag, p) ==
    IF ~p.ok THEN [result |-> "Err", lines |-> <<>>, robot |-> None]
    ELSE [result |-> RobotNewResult(ag, p.out),
          lines |-> p.out,
          robot |-> IF RobotNewResult(ag, p.out) = "Ok"
                    THEN Some(RobotNew(ag, p.out)) ELSE None]

\* lib.rs 526-677: Robot::new from the bytes of the document.  The result
\* is Err when the parser fails or a rule does not compile.
RobotNewTxt(ag, t) == RobotNewParsed(ag, robots_txt_parse(ReplaceNul(t)))

(***************************************************************************)
(* Robot::allowed.                                                         *)
(***************************************************************************)
RobotsTxt == <<"/", "r", "o", "b", "o", "t", "s", ".", "t", "x", "t">>

\* A raw URL is a scheme prefix and the rest.  Url::parse fails on a URL
\* without a scheme; for "http://h" the rest is the path, and an empty path
\* becomes "/"; for "mailto:" the rest is the path as it stands.
Url(scheme, rest) == [scheme |-> scheme, rest |-> rest]
UrlParseOk(u) == u.scheme # ""
UrlFromPath(u) ==
    IF u.scheme = "http://h" /\ Len(u.rest) = 0 THEN <<"/">>
    ELSE percent_encode(u.rest)

prepare_url(u) ==
    IF u.scheme = "" /\ Len(u.rest) = 0 THEN <<"/">>
    ELSE IF UrlParseOk(u) THEN UrlFromPath(u)
    ELSE percent_encode(u.rest)

\* KeyLess with the shortest pattern first.
KeyLess_Ascending(x, y) ==
    \/ Len(x.rule.pattern) < Len(y.rule.pattern)
    \/ /\ Len(x.rule.pattern) = Len(y.rule.pattern)
       /\ x.is_allowed /\ ~y.is_allowed

\* KeyLess on the pattern length alone.
KeyLess_LengthOnly(x, y) == Len(x.rule.pattern) > Len(y.rule.pattern)

\* The sort key (&x.0, !x.1): MinRegex orders by descending length of the
\* original pattern, then false < true on the negated polarity.
KeyLess(x, y) ==
    \/ Len(x.rule.pattern) > Len(y.rule.pattern)
    \/ /\ Len(x.rule.pattern) = Len(y.rule.pattern)
       /\ x.is_allowed /\ ~y.is_allowed

\* sort_by_key is a stable sort: x goes behind every element that is not
\* greater than it.
RECURSIVE InsertByKey(_, _)
InsertByKey(s, x) ==
    IF Len(s) = 0 THEN <<x>>
    ELSE IF KeyLess(x, Head(s)) THEN <<x>> \o s
    ELSE <<Head(s)>> \o InsertByKey(Tail(s), x)

RECURSIVE SortByKey(_)
SortByKey(s) ==
    IF Len(s) = 0 THEN <<>>
    ELSE InsertByKey(SortByKey(SubSeq(s, 1, Len(s) - 1)), s[Len(s)])

\* lib.rs 717-721: is_match is called on every rule; a panic of one call is
\* a panic of allowed.
Outcomes(r, url, oc) ==
    [i \in 1..Len(r.rules) |-> is_match(r.rules[i].rule, url, oc)]

Matches(r, url, oc) ==
    SelectSeq(r.rules, LAMBDA x : is_match(x.rule, url, oc) = "true")

\* allowed answering false when no rule matches.
allowed_DefaultDeny(r, u, oc) ==
    LET url == prepare_url(u) IN
    IF url = RobotsTxt THEN "true"
    ELSE IF \E i \in 1..Len(r.rules) : Outcomes(r, url, oc)[i] = "panic"
        THEN "panic"
    ELSE LET matches == SortByKey(Matches(r, url, oc)) IN
         IF Len(matches) = 0 THEN "false"
         ELSE Bool(matches[1].is_allowed)

\* allowed without the early return for /robots.txt.
allowed_NoRobotsTxt(r, u, oc) ==
    LET url == prepare_url(u) IN
    IF \E i \in 1..Len(r.rules) : Outcomes(r, url, oc)[i] = "panic"
        THEN "panic"
    ELSE LET matches == SortByKey(Matches(r, url, oc)) IN
         IF Len(matches) = 0 THEN "true"
         ELSE Bool(matches[1].is_allowed)

\* lib.rs 710-733
allowed(r, u, oc) ==
    LET url == prepare_url(u) IN
    IF url = RobotsTxt THEN "true"
    ELSE IF \E i \in 1..Len(r.rules) : Outcomes(r, url, oc)[i] = "panic"
        THEN "panic"
    ELSE LET matches == SortByKey(Matches(r, url, oc)) IN
         IF Len(matches) = 0 THEN "true"
         ELSE Bool(matches[1].is_allowed)

(***************************************************************************)
(* Spec and SpecRules: a Robot is built for an agent from a document and   *)
(* asked about a URL.  Spec draws documents with User-Agent groups and two *)
(* URLs, SpecRules documents made of Allow and Disallow lines only, with   *)
(* more patterns and more URLs.                                            *)
(***************************************************************************)
MaxLines == 4
MaxRules == 3

Agents == {<<"A">>, <<CapitalEAcute>>, <<"c">>}

LineChoices ==
    {UserAgent(<<"A">>), UserAgent(<<CapitalEAcute>>), UserAgent(<<"*">>),
     Allow(<<"/">>), Disallow(<<"/", "r">>), Disallow(<<"/", BadByte>>),
     Raw(<<>>)}

Documents == SeqsUpTo(LineChoices, MaxLines)

RulePatterns ==
    {<<>>, <<"/">>, <<"/", "r">>, <<Star>>, <<"/", Dollar>>}

\* The parser turns a Disallow line with an empty value into Allow("/"), so
\* no Disallow line has an empty value.
RuleChoices ==
    {Allow(p) : p \in RulePatterns}
        \cup {Disallow(p) : p \in RulePatterns \ {<<>>}}

RuleDocuments == SeqsUpTo(RuleChoices, MaxRules)

RawUrls ==
    {Url("", <<>>), Url("", <<"/", "r">>), Url("", RobotsTxt),
     Url("http://h", <<>>), Url("http://h", RobotsTxt), Url("mailto:", <<>>)}

GroupUrls == {Url("", <<"/", "r">>), Url("http://h", <<>>)}

Init ==
    /\ overflow_checks \in BOOLEAN
    /\ agent \in Agents
    /\ lines \in Documents
    /\ raw_url \in GroupUrls
    /\ robot = None
    /\ answer = "none"
    /\ result = "none"
    /\ pattern = <<>> /\ text = <<>> /\ rule = None /\ matched = "none"
    /\ txt = <<>> /\ parsed = None

New ==
    /\ result = "none"
    /\ result' = RobotNewResult(agent, lines)
    /\ robot' = IF RobotNewResult(agent, lines) = "Ok"
                THEN Some(RobotNew(agent, lines)) ELSE None
    /\ UNCHANGED <<overflow_checks, matchVars, agent, lines, raw_url, answer,
                   parseVars>>

Allowed ==
    /\ IsSome(robot)
    /\ answer' = allowed(Unwrap(robot), raw_url, overflow_checks)
    /\ UNCHANGED <<overflow_checks, matchVars, agent, lines, raw_url, robot,
                   result, parseVars>>

Next == New \/ Allowed

Spec == Init /\ [][Next]_vars

InitRules ==
    /\ overflow_checks \in BOOLEAN
    /\ agent = <<"c">>
    /\ lines \in RuleDocuments
    /\ raw_url \in RawUrls
    /\ robot = None
    /\ answer = "none"
    /\ result = "none"
    /\ pattern = <<>> /\ text = <<>> /\ rule = None /\ matched = "none"
    /\ txt = <<>> /\ parsed = None

SpecRules == InitRules /\ [][Next]_vars

(***************************************************************************)
(* SpecStars: documents of Allow and Disallow lines whose patterns have    *)
(* runs of "*", among them a pattern with wildcards that ends in "*$".     *)
(***************************************************************************)
MaxStarRules == 2

StarPatterns ==
    {<<"/", Star>>, <<"/", Star, Star>>, <<"/", "r">>,
     <<Star, "r", Star, Dollar>>}

StarChoices ==
    {Allow(p) : p \in StarPatterns} \cup {Disallow(p) : p \in StarPatterns}

StarDocuments == SeqsUpTo(StarChoices, MaxStarRules)

StarUrls == {Url("", <<"/", "r">>), Url("", <<"/", "x">>)}

InitStars ==
    /\ overflow_checks \in BOOLEAN
    /\ agent = <<"c">>
    /\ lines \in StarDocuments
    /\ raw_url \in StarUrls
    /\ robot = None
    /\ answer = "none"
    /\ result = "none"
    /\ pattern = <<>> /\ text = <<>> /\ rule = None /\ matched = "none"
    /\ txt = <<>> /\ parsed = None

SpecStars == InitStars /\ [][Next]_vars

(***************************************************************************)
(* SpecDelay: documents of User-Agent, Crawl-Delay and Sitemap lines.      *)
(***************************************************************************)
MaxDelayLines == 4

DelayAgents == {<<"A">>, <<"c">>}

DelayChoices ==
    {UserAgent(<<"a">>), UserAgent(<<"*">>), CrawlDelay(1), CrawlDelay(2),
     Sitemap(<<"s">>), Sitemap(<<"t">>), Sitemap(<<BadByte>>)}

DelayDocuments == SeqsUpTo(DelayChoices, MaxDelayLines)

InitDelay ==
    /\ overflow_checks \in BOOLEAN
    /\ agent \in DelayAgents
    /\ lines \in DelayDocuments
    /\ raw_url = Url("", <<"/", "r">>)
    /\ robot = None
    /\ answer = "none"
    /\ result = "none"
    /\ pattern = <<>> /\ text = <<>> /\ rule = None /\ matched = "none"
    /\ txt = <<>> /\ parsed = None

SpecDelay == InitDelay /\ [][Next]_vars

(***************************************************************************)
(* SpecParse: the document is given as bytes, a concatenation of at most   *)
(* MaxChunks chunks: directive names, separators, values, line endings and *)
(* bytes that are not text.  robots_txt_parse is applied to the bytes, and *)
(* a Robot is built from them and asked about a URL.                       *)
(***************************************************************************)
MaxChunks == 3

Chunks ==
    {<<"c", "r", "a", "w", "l", "-", "d", "e", "l", "a", "y">>,
     <<"a", "l", "l", "o", "w">>,
     <<Colon>>, <<Space>>, <<Hash>>, <<LF>>, <<CR>>, <<NUL>>,
     <<"-", "1">>, <<"1">>, <<"x">>, <<BadByte>>, <<BomEF>>}

RECURSIVE Flatten(_)
Flatten(cs) == IF Len(cs) = 0 THEN <<>> ELSE Head(cs) \o Flatten(Tail(cs))

Inputs == {Flatten(cs) : cs \in SeqsUpTo(Chunks, MaxChunks)}

InitParse ==
    /\ overflow_checks \in BOOLEAN
    /\ agent = <<"c">>
    /\ txt \in Inputs
    /\ parsed = None
    /\ lines = <<>>
    /\ raw_url = Url("", <<"/", "x">>)
    /\ robot = None
    /\ answer = "none"
    /\ result = "none"
    /\ pattern = <<>> /\ text = <<>> /\ rule = None /\ matched = "none"

\* robots_txt_parse(txt)
Parse ==
    /\ parsed = None
    /\ parsed' = Some(robots_txt_parse(txt))
    /\ UNCHANGED <<overflow_checks, matchVars, robotVars, txt>>

\* Robot::new(agent, txt)
NewTxt ==
    /\ result = "none"
    /\ LET r == RobotNewTxt(agent, txt) IN
          /\ result' = r.result
          /\ lines' = r.lines
          /\ robot' = r.robot
    /\ UNCHANGED <<overflow_checks, matchVars, agent, raw_url, answer,
                   parseVars>>

NextParse == Parse \/ NewTxt \/ Allowed

SpecParse == InitParse /\ [][NextParse]_vars

(***************************************************************************)
(* SpecSyntax: the document is given as bytes made of directive names in   *)
(* several spellings, separators, a value, a comment sign and a line feed; *)
(* the Robot built from it is asked about a URL with a path and about one  *)
(* whose path is empty.                                                    *)
(***************************************************************************)
MaxSyntaxChunks == 3

SyntaxChunks ==
    {<<"d", "i", "s", "a", "l", "l", "o", "w">>,
     <<"D", "i", "s", "s", "a", "l", "l", "o", "w">>,
     <<"a", "l", "l", "o", "w">>,
     <<Colon>>, <<Space>>, <<Hash>>, <<LF>>, <<"/", "a">>}

SyntaxInputs == {Flatten(cs) : cs \in SeqsUpTo(SyntaxChunks, MaxSyntaxChunks)}

SyntaxUrls == {Url("", <<"/", "a">>), Url("mailto:", <<>>)}

InitSyntax ==
    /\ overflow_checks \in BOOLEAN
    /\ agent = <<"c">>
    /\ txt \in SyntaxInputs
    /\ parsed = None
    /\ lines = <<>>
    /\ raw_url \in SyntaxUrls
    /\ robot = None
    /\ answer = "none"
    /\ result = "none"
    /\ pattern = <<>> /\ text = <<>> /\ rule = None /\ matched = "none"

SpecSyntax == InitSyntax /\ [][NextParse]_vars

(***************************************************************************)
(* SpecEndings: the document is given as bytes made of a Raw line, an      *)
(* Allow line, carriage returns and line feeds.                            *)
(***************************************************************************)
MaxEndingChunks == 5

EndingChunks ==
    {<<"x">>, <<"a", "l", "l", "o", "w", Colon, "/">>, <<CR>>, <<LF>>}

EndingInputs == {Flatten(cs) : cs \in SeqsUpTo(EndingChunks, MaxEndingChunks)}

InitEndings ==
    /\ overflow_checks \in BOOLEAN
    /\ agent = <<"c">>
    /\ txt \in EndingInputs
    /\ parsed = None
    /\ lines = <<>>
    /\ raw_url = Url("", <<"/", "x">>)
    /\ robot = None
    /\ answer = "none"
    /\ result = "none"
    /\ pattern = <<>> /\ text = <<>> /\ rule = None /\ matched = "none"

SpecEndings == InitEndings /\ [][NextParse]_vars

(***************************************************************************)
(* SpecBom: the document is given as bytes made of the three bytes of the  *)
(* byte order mark, a Raw line, an Allow line and line feeds.              *)
(***************************************************************************)
MaxBomChunks == 4

BomChunks ==
    {<<BomEF>>, <<BomBB>>, <<BomBF>>,
     <<"x">>, <<"a", "l", "l", "o", "w", Colon, "/">>, <<LF>>}

BomInputs == {Flatten(cs) : cs \in SeqsUpTo(BomChunks, MaxBomChunks)}

InitBom ==
    /\ overflow_checks \in BOOLEAN
    /\ agent = <<"c">>
    /\ txt \in BomInputs
    /\ parsed = None
    /\ lines = <<>>
    /\ raw_url = Url("", <<"/", "x">>)
    /\ robot = None
    /\ answer = "none"
    /\ result = "none"
    /\ pattern = <<>> /\ text = <<>> /\ rule = None /\ matched = "none"

SpecBom == InitBom /\ [][NextParse]_vars

(***************************************************************************)
(* SpecGroups: documents with lines of every kind: User-Agent, Allow,      *)
(* Disallow, Crawl-Delay, Sitemap and Raw lines.                           *)
(***************************************************************************)
MaxGroupLines == 4

GroupAgents == {<<"A">>, <<"c">>}

GroupChoices ==
    {UserAgent(<<"a">>), UserAgent(<<"*">>),
     Allow(<<"/">>), Disallow(<<"/", "r">>),
     CrawlDelay(1), Sitemap(<<"s">>), Raw(<<"x">>)}

GroupDocuments == SeqsUpTo(GroupChoices, MaxGroupLines)

InitGroups ==
    /\ overflow_checks \in BOOLEAN
    /\ agent \in GroupAgents
    /\ lines \in GroupDocuments
    /\ raw_url = Url("", <<"/", "r">>)
    /\ robot = None
    /\ answer = "none"
    /\ result = "none"
    /\ pattern = <<>> /\ text = <<>> /\ rule = None /\ matched = "none"
    /\ txt = <<>> /\ parsed = None

SpecGroups == InitGroups /\ [][Next]_vars

(***************************************************************************)
(* SpecUtf8: documents in which Allow, Disallow and Sitemap lines come     *)
(* with a value that is valid UTF-8 and with one that is not.              *)
(***************************************************************************)
MaxUtf8Lines == 4

Utf8Choices ==
    {UserAgent(<<"a">>), CrawlDelay(1),
     Allow(<<"/">>), Allow(<<"/", BadByte>>),
     Disallow(<<"/", "r">>), Disallow(<<BadByte>>),
     Sitemap(<<"s">>), Sitemap(<<"s", BadByte>>)}

Utf8Documents == SeqsUpTo(Utf8Choices, MaxUtf8Lines)

InitUtf8 ==
    /\ overflow_checks \in BOOLEAN
    /\ agent \in GroupAgents
    /\ lines \in Utf8Documents
    /\ raw_url = Url("", <<"/", "r">>)
    /\ robot = None
    /\ answer = "none"
    /\ result = "none"
    /\ pattern = <<>> /\ text = <<>> /\ rule = None /\ matched = "none"
    /\ txt = <<>> /\ parsed = None

SpecUtf8 == InitUtf8 /\ [][Next]_vars

(***************************************************************************)
(* Reference semantics the claims about the matcher are stated against.    *)
(***************************************************************************)
Contains(s, c) == \E i \in 1..Len(s) : s[i] = c

StartsWith(t, p) == Len(p) <= Len(t) /\ SubSeq(t, 1, Len(p)) = p

\* The literal-regex semantics: p is matched from position i on against t
\* from position j on; "*" is any run of characters, "$" the end of t, any
\* other character itself.  The match is anchored at the start of t only.
RECURSIVE RegexFrom(_, _, _, _)
RegexFrom(p, i, t, j) ==
    IF i > Len(p) THEN TRUE
    ELSE IF p[i] = Star THEN \E k \in j..(Len(t) + 1) : RegexFrom(p, i + 1, t, k)
    ELSE IF p[i] = Dollar THEN j = Len(t) + 1 /\ RegexFrom(p, i + 1, t, j)
    ELSE j <= Len(t) /\ t[j] = p[i] /\ RegexFrom(p, i + 1, t, j + 1)

RegexMatch(p, t) == RegexFrom(p, 1, t, 1)

\* The segments of a pattern: the pieces between its "*".
RECURSIVE Segments(_)
Segments(p) ==
    IF ~Contains(p, Star) THEN <<p>>
    ELSE LET k == CHOOSE i \in 1..Len(p) :
                      p[i] = Star /\ \A h \in 1..(i - 1) : p[h] # Star
         IN <<SubSeq(p, 1, k - 1)>> \o Segments(SubSeq(p, k + 1, Len(p)))

\* seg occurs in t at 0-based position pos
OccursAt(seg, t, pos) ==
    pos + Len(seg) <= Len(t) /\ SubSeq(t, pos + 1, pos + Len(seg)) = seg

\* The segments from the n-th on occur in order in t at or after pos.
RECURSIVE SegmentsFrom(_, _, _, _)
SegmentsFrom(segs, n, t, pos) ==
    IF n > Len(segs) THEN TRUE
    ELSE \E q \in pos..Len(t) :
            /\ OccursAt(segs[n], t, q)
            /\ SegmentsFrom(segs, n + 1, t, q + Len(segs[n]))

SegmentScan(p, t) ==
    LET segs == Segments(p) IN
    /\ OccursAt(segs[1], t, 0)
    /\ SegmentsFrom(segs, 2, t, Len(segs[1]))

Called == matched # "none"

(***************************************************************************)
(* C7 (matcher equivalence): for every pattern and every non-empty         *)
(* candidate, is_match returns true exactly when the candidate matches the *)
(* pattern under the literal-regex semantics.                              *)
(***************************************************************************)
C7_MatcherEquivalence ==
    (Called /\ Len(text) > 0) =>
        ((matched = "true") <=> RegexMatch(pattern, text))

(***************************************************************************)
(* C8 (wildcard scan): for a pattern with "*" and without "$", is_match    *)
(* returns true exactly when the segments of the pattern occur in the      *)
(* candidate in order and without overlap, the first one at position 0.    *)
(***************************************************************************)
C8_WildcardScan ==
    (Called /\ Contains(pattern, Star) /\ ~Contains(pattern, Dollar)) =>
        ((matched = "true") <=> SegmentScan(pattern, text))

(***************************************************************************)
(* C9 (end anchor): for a non-empty literal P without wildcards, the       *)
(* pattern P$ matches a candidate exactly when the candidate is P.         *)
(***************************************************************************)
IsLiteralDollar(p) ==
    /\ Len(p) >= 2
    /\ p[Len(p)] = Dollar
    /\ \A i \in 1..(Len(p) - 1) : p[i] \in Literals

C9_EndAnchor ==
    (Called /\ IsLiteralDollar(pattern)) =>
        ((matched = "true") <=> (text = SubSeq(pattern, 1, Len(pattern) - 1)))

(***************************************************************************)
(* C10 (literal prefix): for a non-empty pattern with neither "*" nor "$", *)
(* is_match returns true exactly when the candidate starts with the        *)
(* pattern, every character compared as it stands.                         *)
(***************************************************************************)
IsLiteral(p) == Len(p) >= 1 /\ \A i \in 1..Len(p) : p[i] \in Literals

C10_LiteralPrefix ==
    (Called /\ IsLiteral(pattern)) =>
        ((matched = "true") <=> StartsWith(text, pattern))

\* A literal pattern with a regex metacharacter has matched a longer
\* candidate, and a pattern differing from the candidate in case only has
\* not.
C10_Witness ==
    /\ Called /\ IsLiteral(pattern)
    /\ Contains(pattern, "(")
    /\ matched = "true"
    /\ Len(text) > Len(pattern)

(***************************************************************************)
(* What the claims about the Robot are stated against.                     *)
(***************************************************************************)
Built == IsSome(robot)
Answered == answer # "none"
TheRobot == Unwrap(robot)
Path == prepare_url(raw_url)

\* The rules is_match returns true for; no call panics.
NoPanic == \A i \in 1..Len(TheRobot.rules) :
               is_match(TheRobot.rules[i].rule, Path, overflow_checks) # "panic"
Matching == {i \in 1..Len(TheRobot.rules) :
                is_match(TheRobot.rules[i].rule, Path, overflow_checks) = "true"}
PatLen(i) == Len(TheRobot.rules[i].rule.pattern)
IsAllowRule(i) == TheRobot.rules[i].is_allowed

\* Rule i matches and its original pattern is strictly longer than that of
\* every other matching rule.
StrictlyLongest(i) ==
    /\ i \in Matching
    /\ \A j \in Matching \ {i} : PatLen(j) < PatLen(i)

LongestTie ==
    \E i, j \in Matching :
        /\ IsAllowRule(i) /\ ~IsAllowRule(j)
        /\ PatLen(i) = PatLen(j)
        /\ \A k \in Matching : PatLen(k) <= PatLen(i)

C6_RobotsTxtAllowed ==
    (Answered /\ Path = RobotsTxt) => answer = "true"

\* The only rules are Disallow rules and one of them (Disallow: / or
\* Disallow: *) matches /robots.txt.
C6_Witness ==
    /\ Answered /\ Path = RobotsTxt
    /\ Len(TheRobot.rules) >= 1
    /\ \A i \in 1..Len(TheRobot.rules) : ~IsAllowRule(i)
    /\ Matching # {}
    /\ answer = "true"

(***************************************************************************)
(* Groups, as the claims about agent selection describe them.  The header  *)
(* of a line is the run of consecutive User-Agent lines that ends at the   *)
(* last User-Agent line before it; Sitemap and Raw lines do not count.     *)
(***************************************************************************)
Doc == FilterLines(lines)
HasUserAgentLine == \E i \in 1..Len(Doc) : Doc[i].kind = "UserAgent"

HeaderOf(i) ==
    LET before == {k \in 1..(i - 1) : Doc[k].kind = "UserAgent"} IN
    IF before = {} THEN {}
    ELSE LET last == CHOOSE k \in before : \A h \in before : h <= k
         IN {k \in 1..last : \A m \in k..last : Doc[m].kind = "UserAgent"}

IsRuleLine(i) == Doc[i].kind \in {"Allow", "Disallow"} /\ IsUtf8(Doc[i].value)

RECURSIVE RulesAt(_, _)
RulesAt(K, i) ==
    IF i > Len(Doc) THEN <<>>
    ELSE (IF i \in K
          THEN <<[pattern |-> percent_encode(Doc[i].value),
                  is_allowed |-> (Doc[i].kind = "Allow")]>>
          ELSE <<>>) \o RulesAt(K, i + 1)

\* The rule list of the Robot, as (original pattern, polarity) pairs.
RuleList ==
    [i \in 1..Len(TheRobot.rules) |->
        [pattern |-> TheRobot.rules[i].rule.pattern,
         is_allowed |-> TheRobot.rules[i].is_allowed]]

\* Two names are the same up to case.
SameName(a, b) == to_lowercase(a) = to_lowercase(b)
NamedSomewhere(a) ==
    \E i \in 1..Len(Doc) : Doc[i].kind = "UserAgent" /\ SameName(Doc[i].value, a)

\* The rule lines of the groups whose header names a.
GroupRulesOf(a) ==
    {i \in 1..Len(Doc) :
        /\ IsRuleLine(i)
        /\ \E k \in HeaderOf(i) : SameName(Doc[k].value, a)}

(***************************************************************************)
(* C3 (active-agent selection): if a User-agent line names the requested   *)
(* agent up to case, the rules are those of the groups naming it; if none  *)
(* does, they are those of the groups naming "*"; if the document has      *)
(* User-agent lines and none names the agent or "*", every path is         *)
(* allowed.                                                                *)
(***************************************************************************)
C3_ActiveAgentSelection ==
    (Built /\ HasUserAgentLine) =>
        /\ NamedSomewhere(agent) => RuleList = RulesAt(GroupRulesOf(agent), 1)
        /\ ~NamedSomewhere(agent) => RuleList = RulesAt(GroupRulesOf(<<"*">>), 1)
        /\ (~NamedSomewhere(agent) /\ ~NamedSomewhere(<<"*">>) /\ Answered)
              => answer = "true"

(***************************************************************************)
(* C4 as stated (captured rules): the rule list holds, in document order,  *)
(* exactly the Allow and Disallow lines with a valid UTF-8 value that lie  *)
(* between a run of consecutive User-agent lines with a line naming the    *)
(* active agent and the next User-agent line.                              *)
(***************************************************************************)
TheActiveAgent == ActiveAgent(Doc, agent)
Captured ==
    {i \in 1..Len(Doc) :
        /\ IsRuleLine(i)
        /\ \E k \in HeaderOf(i) :
              TheActiveAgent = to_ascii_lowercase(Doc[k].value)}

C4_CapturedRulesAnyDocument ==
    Built => RuleList = RulesAt(Captured, 1)

(***************************************************************************)
(* C4 as amended: the same when the document has a User-agent line; when   *)
(* it has none, the rule list holds every Allow and Disallow line with a   *)
(* valid UTF-8 value, in document order.                                   *)
(***************************************************************************)
C4_CapturedRules ==
    Built =>
        RuleList = RulesAt(IF HasUserAgentLine THEN Captured
                           ELSE {i \in 1..Len(Doc) : IsRuleLine(i)}, 1)

\* A rule has been captured under a header of two User-agent lines of which
\* only the first names the active agent, while a rule line before the
\* first User-agent line has not.
C4_Witness ==
    /\ Built
    /\ \E i \in Captured :
          \E k \in HeaderOf(i) :
              /\ k + 1 \in HeaderOf(i)
              /\ TheActiveAgent = to_ascii_lowercase(Doc[k].value)
              /\ TheActiveAgent # to_ascii_lowercase(Doc[k + 1].value)
    /\ IsRuleLine(1)
    /\ Len(RuleList) = 1

(***************************************************************************)
(* C11 (trailing wildcard is redundant): for every pattern P and every     *)
(* candidate, is_match of the pattern P followed by "*" returns true       *)
(* exactly when is_match of P does.                                        *)
(***************************************************************************)
EndsWithStar(p) == Len(p) >= 1 /\ p[Len(p)] = Star
WithoutLast(p) == SubSeq(p, 1, Len(p) - 1)

C11_TrailingWildcard ==
    (Called /\ EndsWithStar(pattern)) =>
        ((matched = "true")
            <=> is_match(MinRegexNew(WithoutLast(pattern)), text,
                         overflow_checks) = "true")

(***************************************************************************)
(* C12 (literal followed by "*$"): for a non-empty literal P, is_match of  *)
(* the pattern P*$ returns true exactly when the candidate starts with P,  *)
(* P itself included.                                                      *)
(***************************************************************************)
IsLiteralStarDollar(p) ==
    /\ Len(p) >= 3
    /\ p[Len(p)] = Dollar
    /\ p[Len(p) - 1] = Star
    /\ IsLiteral(SubSeq(p, 1, Len(p) - 2))

C12_StarDollar ==
    (Called /\ IsLiteralStarDollar(pattern)) =>
        ((matched = "true")
            <=> StartsWith(text, SubSeq(pattern, 1, Len(pattern) - 2)))

(***************************************************************************)
(* C13 (wildcard collapse is semantics-preserving): replacing every run of *)
(* "*" in the patterns of a document by a single "*" changes no answer of  *)
(* allowed, and no stored matcher string has two "*" in a row.             *)
(***************************************************************************)
CollapseLine(l) ==
    IF l.kind \in {"Allow", "Disallow"}
    THEN [kind |-> l.kind, value |-> StarKiller(l.value)]
    ELSE l
CollapseDoc(ls) == [i \in 1..Len(ls) |-> CollapseLine(ls[i])]

HasStarRun(p) == \E i \in 1..(Len(p) - 1) : p[i] = Star /\ p[i + 1] = Star

C13_CollapsePreserves ==
    /\ Answered =>
          answer = allowed(RobotNew(agent, CollapseDoc(lines)), raw_url,
                           overflow_checks)
    /\ Built =>
          \A i \in 1..Len(TheRobot.rules) :
              ~HasStarRun(TheRobot.rules[i].rule.regex)

(***************************************************************************)
(* C14 (a rule that cannot be compiled is fatal): Robot::new returns Err   *)
(* for a document with a long Allow or Disallow pattern that has "*"       *)
(* wildcards and ends in "*$".  LongPatLen stands for the about 4096       *)
(* characters of the claim.                                                *)
(***************************************************************************)
LongPatLen == 4

IsLongWildcard(p) ==
    /\ Len(p) >= LongPatLen
    /\ p[Len(p)] = Dollar
    /\ p[Len(p) - 1] = Star
    /\ Contains(SubSeq(p, 1, Len(p) - 2), Star)

C14_LongPatternIsErr ==
    (result # "none"
        /\ \E i \in 1..Len(lines) :
              /\ lines[i].kind \in {"Allow", "Disallow"}
              /\ IsLongWildcard(lines[i].value))
    => (result = "Err" /\ robot = None)

(***************************************************************************)
(* C16 (no query can panic): for every rule set and every URL, allowed     *)
(* returns a boolean, also when the normalized path is empty or one        *)
(* character long and when a pattern is one character long.                *)
(***************************************************************************)
C16_NoPanic == Answered => answer \in {"true", "false"}

(***************************************************************************)
(* Crawl-Delay lines, as the claims about the delay describe them: those   *)
(* captured for the active agent (in a group whose header names it, or     *)
(* anywhere in a document without User-agent lines) and those before the   *)
(* first User-agent line.                                                  *)
(***************************************************************************)
IsDelayLine(i) == Doc[i].kind = "CrawlDelay"

CapturedDelays ==
    {i \in 1..Len(Doc) :
        /\ IsDelayLine(i)
        /\ HasUserAgentLine =>
              \E k \in HeaderOf(i) :
                  TheActiveAgent = to_ascii_lowercase(Doc[k].value)}

LeadingDelays ==
    {i \in 1..Len(Doc) :
        /\ IsDelayLine(i)
        /\ \A k \in 1..(i - 1) : Doc[k].kind # "UserAgent"}

First(S) == CHOOSE i \in S : \A j \in S : i <= j

(***************************************************************************)
(* C17 (captured delay): if a Crawl-Delay line was captured for the active *)
(* agent, delay is the value of the first such line in document order; a   *)
(* delay is never taken from a group that does not name the active agent.  *)
(***************************************************************************)
C17_FirstCapturedDelay ==
    Built =>
        /\ CapturedDelays # {} =>
              TheRobot.delay = Some(Doc[First(CapturedDelays)].value)
        /\ IsSome(TheRobot.delay) =>
              \E i \in CapturedDelays \cup LeadingDelays :
                  Doc[i].value = Unwrap(TheRobot.delay)

\* Two Crawl-Delay lines with different values were captured for the active
\* agent, a Crawl-Delay line that was not captured lies before them with
\* another value than the first of them, and the delay is that of the
\* first captured line.
C17_Witness ==
    /\ Built
    /\ Cardinality(CapturedDelays) >= 2
    /\ \E i \in 1..Len(Doc) :
          /\ IsDelayLine(i) /\ i \notin CapturedDelays
          /\ i < First(CapturedDelays)
          /\ Doc[i].value # Doc[First(CapturedDelays)].value
    /\ \E j \in CapturedDelays :
          Doc[j].value # Doc[First(CapturedDelays)].value
    /\ TheRobot.delay = Some(Doc[First(CapturedDelays)].value)

(***************************************************************************)
(* C18 (leading delay): if no Crawl-Delay line was captured for the active *)
(* agent, delay is Some exactly when a Crawl-Delay line lies before the    *)
(* first User-agent line; the delay of another group is not inherited, and *)
(* a leading delay does not override a captured one.                       *)
(***************************************************************************)
C18_LeadingDelay ==
    Built =>
        /\ CapturedDelays = {} =>
              (IsSome(TheRobot.delay) <=> LeadingDelays # {})
        /\ (CapturedDelays = {} /\ IsSome(TheRobot.delay)) =>
              \E i \in LeadingDelays : Doc[i].value = Unwrap(TheRobot.delay)
        /\ CapturedDelays # {} =>
              \E i \in CapturedDelays : Doc[i].value = Unwrap(TheRobot.delay)

\* The requested agent is named by a group without a delay, the group of
\* "*" has a delay, and no delay lies before the first User-agent line:
\* the delay is None.
C18_Witness ==
    /\ Built
    /\ NamedSomewhere(agent)
    /\ CapturedDelays = {} /\ LeadingDelays = {}
    /\ \E i \in 1..Len(Doc) :
          /\ IsDelayLine(i)
          /\ \E k \in HeaderOf(i) : Doc[k].value = <<"*">>
    /\ TheRobot.delay = None

(***************************************************************************)
(* C20 (sitemaps are agent-independent): the sitemaps of a Robot are the   *)
(* values of all Sitemap lines of the document with a valid UTF-8 value,   *)
(* in document order and with repetitions, and they are the same for       *)
(* every requested agent.                                                  *)
(***************************************************************************)
RECURSIVE SitemapValues(_, _)
SitemapValues(ls, i) ==
    IF i > Len(ls) THEN <<>>
    ELSE (IF ls[i].kind = "Sitemap" /\ IsUtf8(ls[i].value)
          THEN <<ls[i].value>> ELSE <<>>) \o SitemapValues(ls, i + 1)

C20_SitemapsAgentIndependent ==
    Built =>
        /\ TheRobot.sitemaps = SitemapValues(lines, 1)
        /\ \A a \in DelayAgents :
              RobotNew(a, lines).sitemaps = TheRobot.sitemaps

\* The only User-agent line is the first line of the document and does not
\* name the active agent; the group holds the same Sitemap value twice and a
\* Sitemap line that is not valid UTF-8; the sitemaps are the two equal
\* values.
C20_Witness ==
    /\ Built
    /\ Len(lines) >= 4
    /\ lines[1].kind = "UserAgent"
    /\ TheActiveAgent # to_ascii_lowercase(lines[1].value)
    /\ \A i \in 2..Len(lines) : lines[i].kind = "Sitemap"
    /\ \E i \in 2..Len(lines) : ~IsUtf8(lines[i].value)
    /\ Len(TheRobot.sitemaps) = 2
    /\ TheRobot.sitemaps[1] = TheRobot.sitemaps[2]

(***************************************************************************)
(* C15 (the directive parser is total): for every byte sequence,           *)
(* robots_txt_parse returns Ok with nothing left of the input, and         *)
(* Robot::new does not fail.                                               *)
(***************************************************************************)
C15_ParserTotal ==
    /\ IsSome(parsed) =>
          (Unwrap(parsed).ok /\ Len(Unwrap(parsed).rest) = 0)
    /\ result # "none" => (result = "Ok" /\ Built)

\* The input has a byte that is not text and a carriage return that no
\* line feed follows, and it was parsed into two lines or more.
C15_Witness ==
    /\ IsSome(parsed) /\ result = "Ok"
    /\ Contains(txt, BadByte)
    /\ \E i \in 1..Len(txt) :
          txt[i] = CR /\ (i = Len(txt) \/ txt[i + 1] # LF)
    /\ Unwrap(parsed).ok
    /\ Len(Unwrap(parsed).out) >= 2

(***************************************************************************)
(* C19 (malformed Crawl-Delay): a Crawl-Delay line whose value is          *)
(* negative, not a number or not valid UTF-8 is parsed as a Raw line;      *)
(* Robot::new succeeds and takes no delay from it; no CrawlDelay line and  *)
(* no Robot holds a delay below 0.                                         *)
(***************************************************************************)
BadDelayValues == {<<"-", "1">>, <<"x">>, <<BadByte>>}

IsBadDelayLine(t) ==
    \E sep \in {Colon, Space} : \E v \in BadDelayValues :
        t = CrawlDelayTags[1] \o <<sep>> \o v

C19_MalformedDelayIsRaw ==
    /\ (IsSome(parsed) /\ IsBadDelayLine(txt)) =>
          (Unwrap(parsed).ok /\ Unwrap(parsed).out = <<Raw(txt)>>)
    /\ (result # "none" /\ IsBadDelayLine(txt)) =>
          (result = "Ok" /\ Built /\ TheRobot.delay = None)
    /\ IsSome(parsed) =>
          \A i \in 1..Len(Unwrap(parsed).out) :
              Unwrap(parsed).out[i].kind = "CrawlDelay"
                  => Unwrap(parsed).out[i].value >= 0
    /\ (Built /\ IsSome(TheRobot.delay)) => Unwrap(TheRobot.delay) >= 0

\* A Crawl-Delay line with a negative value has been parsed as a Raw line
\* and the Robot built from it has no delay.
C19_Witness ==
    /\ IsSome(parsed) /\ Built
    /\ IsBadDelayLine(txt)
    /\ SubSeq(txt, Len(txt) - 1, Len(txt)) = <<"-", "1">>
    /\ Unwrap(parsed).out = <<Raw(txt)>>
    /\ TheRobot.delay = None

(***************************************************************************)
(* C21 (documents without a User-agent line): if the document has no       *)
(* User-agent line, capturing starts true, and for every requested agent   *)
(* the rule list holds every Allow and Disallow line with a valid UTF-8    *)
(* value and the delay is that of the first Crawl-Delay line; if it has a  *)
(* User-agent line, capturing starts false, so the rules are those of the  *)
(* document without the lines before its first User-agent line.            *)
(***************************************************************************)
AllRuleLines == {i \in 1..Len(Doc) : IsRuleLine(i)}
AllDelayLines == {i \in 1..Len(Doc) : Doc[i].kind = "CrawlDelay"}

FirstUserAgent(ls) ==
    CHOOSE i \in 1..Len(ls) :
        ls[i].kind = "UserAgent" /\ \A k \in 1..(i - 1) : ls[k].kind # "UserAgent"
FromFirstUserAgent(ls) == SubSeq(ls, FirstUserAgent(ls), Len(ls))

C21_NoUserAgentLine ==
    Built =>
        /\ ~HasUserAgentLine =>
              /\ InitialCapturing(Doc)
              /\ RuleList = RulesAt(AllRuleLines, 1)
              /\ TheRobot.delay =
                    (IF AllDelayLines = {} THEN None
                     ELSE Some(Doc[First(AllDelayLines)].value))
        /\ HasUserAgentLine =>
              /\ ~InitialCapturing(Doc)
              /\ RobotNew(agent, FromFirstUserAgent(Doc)).rules = TheRobot.rules

\* A document without a User-agent line has an Allow line, a Disallow line
\* and a Crawl-Delay line, and the Robot has the two rules and the delay.
C21_Witness ==
    /\ Built /\ ~HasUserAgentLine
    /\ \E i, j, k \in 1..Len(Doc) :
          /\ Doc[i].kind = "Allow" /\ Doc[j].kind = "Disallow"
          /\ IsUtf8(Doc[j].value) /\ Doc[k].kind = "CrawlDelay"
    /\ Len(TheRobot.rules) = 2
    /\ IsSome(TheRobot.delay)

(***************************************************************************)
(* C23 (Raw and Sitemap lines are ignored by agent selection): deleting    *)
(* every Raw and every Sitemap line from a document changes neither the    *)
(* rules nor the delay obtained for any agent; User-agent lines separated  *)
(* only by such lines form one group header, and capturing continues       *)
(* across such a line inside a group.                                      *)
(***************************************************************************)
IsIgnoredLine(l) == l.kind \in {"Raw", "Sitemap"}
WithoutIgnored(ls) == SelectSeq(ls, LAMBDA l : ~IsIgnoredLine(l))

SameRulesAndDelay(r, s) == r.rules = s.rules /\ r.delay = s.delay

C23_IgnoredLines ==
    Built =>
        SameRulesAndDelay(RobotNew(agent, WithoutIgnored(lines)), TheRobot)

\* A User-agent line naming the active agent, a Raw or Sitemap line, a
\* User-agent line naming another agent and a Disallow line: the rule has
\* been captured for the active agent.
C23_Witness ==
    /\ Built
    /\ Len(lines) = 4
    /\ lines[1].kind = "UserAgent"
    /\ TheActiveAgent = to_ascii_lowercase(lines[1].value)
    /\ IsIgnoredLine(lines[2])
    /\ lines[3].kind = "UserAgent"
    /\ TheActiveAgent # to_ascii_lowercase(lines[3].value)
    /\ lines[4] = Disallow(<<"/", "r">>)
    /\ Len(TheRobot.rules) = 1
    /\ ~TheRobot.rules[1].is_allowed

(***************************************************************************)
(* C24 (invalid UTF-8 is absorbed locally): an Allow or Disallow line      *)
(* whose value is not valid UTF-8 produces no rule and a Sitemap line      *)
(* whose value is not valid UTF-8 produces no sitemap entry; Robot::new    *)
(* returns Ok, and the rules, the sitemaps and the delay are those of the  *)
(* document without these lines.                                           *)
(***************************************************************************)
IsInvalidLine(l) ==
    l.kind \in {"Allow", "Disallow", "Sitemap"} /\ ~IsUtf8(l.value)
WithoutInvalid(ls) == SelectSeq(ls, LAMBDA l : ~IsInvalidLine(l))

EmptyRules == {i \in 1..Len(TheRobot.rules) : PatLen(i) = 0}

WithoutEmptyRules(r) ==
    [rules |-> SelectSeq(r.rules, LAMBDA x : Len(x.rule.pattern) > 0),
     delay |-> r.delay,
     sitemaps |-> r.sitemaps]

Last(S) == CHOOSE i \in S : \A j \in S : j <= i

C29_LastLeadingDelay ==
    Built =>
        /\ (CapturedDelays = {} /\ LeadingDelays # {}) =>
              TheRobot.delay = Some(Doc[Last(LeadingDelays)].value)
        /\ (~HasUserAgentLine /\ LeadingDelays # {}) =>
              TheRobot.delay = Some(Doc[First(LeadingDelays)].value)

\* Two Crawl-Delay lines with different values lie before the first
\* User-agent line and none was captured: the delay is the second value,
\* while the Robot of the lines before the first User-agent line alone has
\* the first value.
C29_Witness ==
    /\ Built /\ HasUserAgentLine
    /\ CapturedDelays = {}
    /\ Cardinality(LeadingDelays) = 2
    /\ Doc[First(LeadingDelays)].value # Doc[Last(LeadingDelays)].value
    /\ TheRobot.delay = Some(Doc[Last(LeadingDelays)].value)
    /\ RobotNew(agent, SubSeq(Doc, 1, FirstUserAgent(Doc) - 1)).delay
          = Some(Doc[First(LeadingDelays)].value)

(***************************************************************************)
(* C30 (no User-Agent line in the captured subset): after the walk over    *)
(* any document, for any agent, the captured subset holds only Allow,      *)
(* Disallow and CrawlDelay lines, also when the document ends with a run   *)
(* of User-Agent lines that names the active agent.                        *)
(***************************************************************************)
TheSubset == Subset(Doc, TheActiveAgent)

C30_NoUserAgentInSubset ==
    Built =>
        \A i \in 1..Len(TheSubset) :
            TheSubset[i].kind \in {"Allow", "Disallow", "CrawlDelay"}

(***************************************************************************)
(* C22 (Disallow without a value): a Disallow directive, in any accepted   *)
(* spelling, with an empty value is parsed as Allow("/") and never as a    *)
(* Disallow line; the Robot of a document whose only rule is such a line   *)
(* has the single rule ("/", allowed) and allows every path.               *)
(***************************************************************************)
ParsedLines == Unwrap(parsed).out

\* The text is one Disallow directive without a value: the name, a
\* separator, and nothing but blanks, a comment or a line feed after it.
IsEmptyDisallow(t) ==
    \E n \in 1..Len(DisallowTags) :
        \E sep \in {<<Colon>>, <<Space>>, <<Space, Colon>>, <<Colon, Space>>} :
            \E end \in {<<>>, <<LF>>, <<Hash>>, <<Space>>} :
                /\ Len(t) = Len(DisallowTags[n]) + Len(sep) + Len(end)
                /\ to_ascii_lowercase(SubSeq(t, 1, Len(DisallowTags[n])))
                      = DisallowTags[n]
                /\ Skip(t, Len(DisallowTags[n])) = sep \o end

C22_EmptyDisallow ==
    /\ IsSome(parsed) =>
          /\ Unwrap(parsed).ok
          /\ \A i \in 1..Len(ParsedLines) :
                ParsedLines[i].kind = "Disallow"
                    => Len(ParsedLines[i].value) > 0
          /\ IsEmptyDisallow(txt) => ParsedLines = <<Allow(<<"/">>)>>
    /\ (result # "none" /\ IsEmptyDisallow(txt)) =>
          /\ Built
          /\ RuleList = <<[pattern |-> <<"/">>, is_allowed |-> TRUE]>>
    /\ (Answered /\ IsEmptyDisallow(txt)) => answer = "true"

\* The same without the last conjunct: what the parser and Robot::new do
\* with a Disallow directive without a value.
C22_EmptyDisallowParsed ==
    /\ IsSome(parsed) =>
          /\ Unwrap(parsed).ok
          /\ \A i \in 1..Len(ParsedLines) :
                ParsedLines[i].kind = "Disallow"
                    => Len(ParsedLines[i].value) > 0
          /\ IsEmptyDisallow(txt) => ParsedLines = <<Allow(<<"/">>)>>
    /\ (result # "none" /\ IsEmptyDisallow(txt)) =>
          /\ Built
          /\ RuleList = <<[pattern |-> <<"/">>, is_allowed |-> TRUE]>>

(***************************************************************************)
(* C26 (directive syntax): a line is recognized as a directive only if a   *)
(* directive name, in any accepted spelling and any case, after optional   *)
(* leading blanks, is followed by optional blanks and a colon or by at     *)
(* least one blank; a name followed directly by another character gives a  *)
(* Raw line and no rule, while "disallow:/a" and "disallow /a" give a      *)
(* Disallow rule.                                                          *)
(***************************************************************************)
FirstLine(t) == SubSeq(t, 1, LeadNotIn(t, {LF, CR}))

\* What may follow a directive name
IsSeparated(r) ==
    \/ Len(r) >= 1 /\ r[1] \in Blank
    \/ \E m \in 0..(Len(r) - 1) :
          r[m + 1] = Colon /\ \A i \in 1..m : r[i] \in Blank

\* l is blanks, one of the names and a separator, and whatever follows
HasDirectiveSyntax(l, tags) ==
    \E n \in 0..Len(l) : \E k \in 1..Len(tags) :
        /\ \A i \in 1..n : l[i] \in Blank
        /\ Len(l) - n >= Len(tags[k])
        /\ to_ascii_lowercase(SubSeq(l, n + 1, n + Len(tags[k]))) = tags[k]
        /\ IsSeparated(Skip(l, n + Len(tags[k])))

AllTags ==
    UserAgentTags \o AllowTags \o DisallowTags \o SitemapTags \o CrawlDelayTags
ValueTags == UserAgentTags \o AllowTags \o DisallowTags \o SitemapTags

NameThenValue == <<"D", "i", "s", "s", "a", "l", "l", "o", "w">> \o <<"/", "a">>
ColonThenValue == DisallowTags[1] \o <<Colon, "/", "a">>
SpaceThenValue == DisallowTags[1] \o <<Space, "/", "a">>

C26_DirectiveSyntax ==
    /\ (IsSome(parsed) /\ Len(txt) > 0) =>
          /\ Unwrap(parsed).ok /\ Len(ParsedLines) >= 1
          /\ ParsedLines[1].kind # "Raw"
                => HasDirectiveSyntax(FirstLine(txt), AllTags)
          /\ HasDirectiveSyntax(FirstLine(txt), ValueTags)
                => ParsedLines[1].kind # "Raw"
          /\ ParsedLines[1].kind = "Raw"
                => ParsedLines[1].value = FirstLine(txt)
          /\ txt = NameThenValue => ParsedLines = <<Raw(txt)>>
          /\ txt \in {ColonThenValue, SpaceThenValue}
                => ParsedLines = <<Disallow(<<"/", "a">>)>>
    /\ Built =>
          /\ txt = NameThenValue => TheRobot.rules = <<>>
          /\ txt \in {ColonThenValue, SpaceThenValue} =>
                RuleList = <<[pattern |-> <<"/", "a">>, is_allowed |-> FALSE]>>

\* A Disallow name followed directly by a path has been parsed as a Raw
\* line, and the Robot built from it has no rule.
C26_Witness ==
    /\ IsSome(parsed) /\ Built
    /\ txt = NameThenValue
    /\ ParsedLines = <<Raw(txt)>>
    /\ TheRobot.rules = <<>>

(***************************************************************************)
(* C27 (one Line per physical line): a line terminator is a maximal run of *)
(* carriage returns with at most one line feed after it, or a single line  *)
(* feed.  The parser returns one Line per terminator and one more for an   *)
(* unterminated last line, and the same text with every terminator written *)
(* as a single line feed gives the same Lines.                             *)
(***************************************************************************)
\* A terminator ends at position i of t.
EndsTerminator(t, i) ==
    \/ t[i] = LF
    \/ t[i] = CR /\ (i = Len(t) \/ t[i + 1] \notin {CR, LF})

PhysicalLines(t) ==
    Cardinality({i \in 1..Len(t) : EndsTerminator(t, i)})
        + (IF Len(t) > 0 /\ t[Len(t)] \notin {CR, LF} THEN 1 ELSE 0)

\* t with every terminator written as one line feed
RECURSIVE WithLineFeeds(_)
WithLineFeeds(t) ==
    IF Len(t) = 0 THEN <<>>
    ELSE IF t[1] = CR /\ Len(t) >= 2 /\ t[2] \in {CR, LF}
        THEN WithLineFeeds(Tail(t))
    ELSE IF t[1] = CR THEN <<LF>> \o WithLineFeeds(Tail(t))
    ELSE <<t[1]>> \o WithLineFeeds(Tail(t))

C27_OneLinePerPhysicalLine ==
    IsSome(parsed) =>
        /\ Unwrap(parsed).ok
        /\ Len(ParsedLines) = PhysicalLines(txt)
        /\ ParsedLines = robots_txt_parse(WithLineFeeds(txt)).out

\* Two carriage returns and a line feed stand between a Raw line and an
\* Allow line without a terminator, and two Lines were returned.
C27_Witness ==
    /\ IsSome(parsed)
    /\ Len(txt) >= 5
    /\ txt[1] = "x" /\ txt[2] = CR /\ txt[3] = CR /\ txt[4] = LF
    /\ txt[Len(txt)] \notin {CR, LF}
    /\ Len(ParsedLines) = 2
    /\ ParsedLines[1] = Raw(<<"x">>)
    /\ ParsedLines[2] = Allow(<<"/">>)

(***************************************************************************)
(* C28 (byte order mark): the parser removes from the start of the input   *)
(* the longest prefix of EF BB BF that the input begins with (EF, EF BB or *)
(* EF BB BF) and nothing else: a leading BB or BF, or a BF right after a   *)
(* leading EF, stays in the first line, and these bytes are not removed    *)
(* anywhere after the start.                                               *)
(***************************************************************************)
Bom == <<BomEF, BomBB, BomBF>>

BomPrefixLen(t) ==
    CHOOSE k \in 0..3 :
        /\ k <= Len(t) /\ SubSeq(t, 1, k) = SubSeq(Bom, 1, k)
        /\ \A h \in (k + 1)..3 :
              ~(h <= Len(t) /\ SubSeq(t, 1, h) = SubSeq(Bom, 1, h))

C28_BomPrefixOnly ==
    IsSome(parsed) =>
        Unwrap(parsed) = many_till(Skip(txt, BomPrefixLen(txt)), <<>>)

\* The part of C28 about the bytes after the start: what was removed is a
\* prefix of the input of at most three bytes, all of them bytes of the
\* byte order mark.
C28_OnlyLeadingBomBytes ==
    IsSome(parsed) =>
        \E k \in 0..3 :
            /\ k <= Len(txt)
            /\ \A i \in 1..k : txt[i] \in {BomEF, BomBB, BomBF}
            /\ Unwrap(parsed) = many_till(Skip(txt, k), <<>>)

=============================================================================
